---- MODULE Spec2Model ----
(***************************************************************************)
(* Crown web page scripts.                                                 *)
(*                                                                         *)
(*   - the portfolio slideshow / gallery / lightbox controller             *)
(*     (src/unnamed/part_001, the null-guarded variant with thumbnails;    *)
(*     src/unnamed/part_000 is the same code without comments and          *)
(*     src/Crown/portfolio.js the same handlers without the null guards);  *)
(*   - the order form validator / submitter (src/unnamed/part_002).        *)
(*                                                                         *)
(* The two scripts share no state.  Spec runs the slideshow controller     *)
(* with the order forms idle, SpecForm runs the order forms with the       *)
(* slideshow idle.                                                         *)
(***************************************************************************)
EXTENDS Integers, Sequences, FiniteSets, TLC

\* ------------------------------------------------------------------ bounds
\* Largest image count drawn for COUNT (the source fixes 44).
MaxCount == 3
\* setInterval ids handed out in one behaviour.
MaxTimers == 3
\* Longest run of consecutive autoplay ticks that is tracked.
MaxTicks == 4
\* Longest list of entries in one IntersectionObserver callback.
MaxEntries == 2
\* Largest image count drawn for a page that lacks some of its elements.
MaxDomCount == 1

\* ------------------------------------------------------------ slideshow state
VARIABLES
  COUNT,        \* fullImages.length (const COUNT)
  els,          \* ids for which document.getElementById found an element
  idx,          \* let idx
  autoplay,     \* let autoplay: the interval handle, NoTimer for null
  live,         \* the browser's table of intervals that still fire
  nextId,       \* the id the next setInterval returns
  docHidden,    \* document.hidden
  lbHidden,     \* lightbox.classList.contains("hidden")
  ariaHidden,   \* lightbox aria-hidden attribute
  lbSrc,        \* lightboxImg.src
  lbCaption,    \* lightboxCaption.textContent
  slides,       \* children of slidesTrack
  status,       \* statusEl.textContent
  gallery,      \* the thumbnails of galleryEl, in order
  galleryBuilt, \* renderGallery has filled galleryEl
  threw,        \* some handler ended in an uncaught TypeError
  ioHits,       \* the thumbnails the last step's observer callback reported
                \* as intersecting; {} when the last step was none (history)
  tickFrom,     \* idx at the start of the tracked run of ticks (history)
  tickN         \* ticks in the tracked run (history)

svars == <<COUNT, els, idx, autoplay, live, nextId, docHidden, lbHidden,
           ariaHidden, lbSrc, lbCaption, slides, status, gallery,
           galleryBuilt, threw, ioHits, tickFrom, tickN>>

\* ---------------------------------------------------------- order form state
VARIABLES
  forms,      \* per form: required controls, item rows, button, error panel,
              \* requests in flight
  location,   \* the last value assigned to window.location.href
  redirects,  \* how often window.location.href was assigned (history)
  posts,      \* how many POST requests were issued (history)
  resets      \* how often form.reset() ran (history)

fvars == <<forms, location, redirects, posts, resets>>

vars == <<svars, fvars>>

\* null timer handle; setInterval returns ids >= 1, so `if (autoplay)` is
\* exactly autoplay # NoTimer.
NoTimer == 0
\* the value of (idx + 1) % 0
NaN == -1

AllEls == {"slidesTrack", "statusEl", "galleryEl", "lightbox", "lightboxImg",
           "lightboxCaption", "lightboxClose", "lightboxBackdrop"}

\* fullImages[i] for a 0-based i; fullImages[NaN] is undefined
fullImages(i) ==
  IF i = NaN THEN [kind |-> "undefined", n |-> 0]
  ELSE [kind |-> "full", n |-> i + 1]
\* thumbImages[i] for a 0-based i
thumbImages(i) == [kind |-> "thumb", n |-> i + 1]
\* an image element without a src attribute
NoSrc == [kind |-> "none", n |-> 0]

\* status texts
StatusBlank == [kind |-> "blank", cur |-> 0, total |-> 0]
StatusNoImages == [kind |-> "No images found.", cur |-> 0, total |-> 0]
StatusPos(i, n) == [kind |-> "pos", cur |-> i + 1, total |-> n]

\* caption `Image ${i + 1} / ${fullImages.length}`; the empty caption
Caption(i, n) == [n |-> i + 1, total |-> n]
NoCaption == [n |-> 0, total |-> 0]

\* a <figure class="slide active"> holding the image at index i
Slide(i) == [src |-> fullImages(i), alt |-> IF i = NaN THEN NaN ELSE i + 1]

\* ------------------------------------------------------------------ helpers
\* updateStatus(): the text statusEl shows afterwards
updateStatus(e, n, i, old) ==
  IF "statusEl" \notin e THEN old
  ELSE IF n # 0 THEN StatusPos(i, n) ELSE StatusBlank

\* renderSlide() without `slidesTrack.innerHTML = ""`: the new slide is added
\* to the ones already there
renderSlideAppend(e, i, old) ==
  IF "slidesTrack" \notin e THEN old ELSE old \o <<Slide(i)>>

\* renderSlide(): the children of slidesTrack afterwards
renderSlide(e, i, old) ==
  IF "slidesTrack" \notin e THEN old ELSE <<Slide(i)>>

\* renderSlide() reaches updateStatus() only when slidesTrack exists
renderStatus(e, n, i, old) ==
  IF "slidesTrack" \notin e THEN old ELSE updateStatus(e, n, i, old)

\* stopAutoplay(): the interval table afterwards
stopAutoplay(a, lv) == IF a # NoTimer THEN lv \ {a} ELSE lv

\* startAutoplay() without its leading stopAutoplay(): the old interval leaks
startAutoplayNoCancel(a, lv, nid) ==
  [autoplay |-> nid, live |-> lv \cup {nid}, nextId |-> nid + 1]

\* startAutoplay(): handle, interval table and next id afterwards
startAutoplay(a, lv, nid) ==
  [autoplay |-> nid, live |-> stopAutoplay(a, lv) \cup {nid}, nextId |-> nid + 1]

\* the index update counting from one (1 .. length)
NextIdxOneBased(i, n) == IF n = 0 \/ i = NaN THEN NaN ELSE (i % n) + 1

\* the index update wrapping one step late (% (length + 1))
NextIdxWrapLate(i, n) == IF n = 0 \/ i = NaN THEN NaN ELSE (i + 1) % (n + 1)

\* the interval callback's index update
NextIdx(i, n) == IF n = 0 \/ i = NaN THEN NaN ELSE (i + 1) % n

\* ----------------------------------------------------------------- lightbox
\* the lightbox and timer fields as one record
LbState ==
  [hidden |-> lbHidden, aria |-> ariaHidden, src |-> lbSrc,
   caption |-> lbCaption, autoplay |-> autoplay, live |-> live,
   nextId |-> nextId, threw |-> threw]

\* openLightbox(url, label) without its setAttribute("aria-hidden", "false")
openLightboxNoAria(e, s, url, label) ==
  IF "lightbox" \notin e THEN s
  ELSE IF "lightboxImg" \notin e THEN [s EXCEPT !.threw = TRUE]
  ELSE IF "lightboxCaption" \notin e
    THEN [s EXCEPT !.src = url, !.threw = TRUE]
  ELSE [s EXCEPT !.src = url, !.caption = label, !.hidden = FALSE,
                 !.autoplay = NoTimer,
                 !.live = stopAutoplay(s.autoplay, s.live)]

\* openLightbox(url, label).  A missing lightboxImg or lightboxCaption makes
\* the property write throw, which ends the handler where it stands.
openLightbox(e, s, url, label) ==
  IF "lightbox" \notin e THEN s
  ELSE IF "lightboxImg" \notin e THEN [s EXCEPT !.threw = TRUE]
  ELSE IF "lightboxCaption" \notin e
    THEN [s EXCEPT !.src = url, !.threw = TRUE]
  ELSE [s EXCEPT !.src = url, !.caption = label, !.hidden = FALSE,
                 !.aria = "false", !.autoplay = NoTimer,
                 !.live = stopAutoplay(s.autoplay, s.live)]

\* closeLightbox()
closeLightbox(e, s) ==
  IF "lightbox" \notin e THEN s
  ELSE IF "lightboxImg" \notin e
    THEN [s EXCEPT !.hidden = TRUE, !.aria = "true", !.threw = TRUE]
  ELSE LET t == startAutoplay(s.autoplay, s.live, s.nextId)
       IN [s EXCEPT !.hidden = TRUE, !.aria = "true", !.src = NoSrc,
                    !.autoplay = t.autoplay, !.live = t.live,
                    !.nextId = t.nextId]

\* a keydown listener that calls closeLightbox() on every Escape
onKeydownEscapeAlways(e, s) == closeLightbox(e, s)

\* the keydown listener: Escape closes an open lightbox, nothing else
onKeydownEscape(e, s) ==
  IF "lightbox" \in e /\ ~s.hidden THEN closeLightbox(e, s) ELSE s

\* a visibilitychange listener that leaves autoplay alone while the lightbox
\* is open
onVisibilityChangeUnlessOpen(s, hidden) ==
  IF hidden
    THEN [s EXCEPT !.autoplay = NoTimer,
                   !.live = stopAutoplay(s.autoplay, s.live)]
  ELSE IF ~s.hidden THEN s
  ELSE LET t == startAutoplay(s.autoplay, s.live, s.nextId)
       IN [s EXCEPT !.autoplay = t.autoplay, !.live = t.live,
                    !.nextId = t.nextId]

\* the visibilitychange listener, run with the new value of document.hidden
onVisibilityChange(s, hidden) ==
  IF hidden
    THEN [s EXCEPT !.autoplay = NoTimer,
                   !.live = stopAutoplay(s.autoplay, s.live)]
  ELSE LET t == startAutoplay(s.autoplay, s.live, s.nextId)
       IN [s EXCEPT !.autoplay = t.autoplay, !.live = t.live,
                    !.nextId = t.nextId]

SetLb(s) ==
  /\ lbHidden' = s.hidden
  /\ ariaHidden' = s.aria
  /\ lbSrc' = s.src
  /\ lbCaption' = s.caption
  /\ autoplay' = s.autoplay
  /\ live' = s.live
  /\ nextId' = s.nextId
  /\ threw' = s.threw

\* ------------------------------------------------------------------ gallery
\* renderGallery(): one lazy thumbnail per image, each observed.  loads
\* counts the assignments to img.src (history).
renderGallery(e, n) ==
  IF "galleryEl" \notin e THEN <<>>
  ELSE [k \in 1..n |->
          [dataSrc |-> thumbImages(k - 1), src |-> NoSrc, observed |-> TRUE,
           loads |-> 0]]

\* the callback's loop body without its `if (realSrc)` guard
ioEntryNoGuard(g, entry) ==
  IF ~entry.isIntersecting THEN g
  ELSE LET k == entry.target
       IN [g EXCEPT ![k] = [dataSrc |-> NoSrc, src |-> g[k].dataSrc,
                            observed |-> FALSE, loads |-> g[k].loads + 1]]

\* one entry of the IntersectionObserver callback's loop
ioEntry(g, entry) ==
  IF ~entry.isIntersecting THEN g
  ELSE LET k == entry.target
           realSrc == g[k].dataSrc
       IN IF realSrc # NoSrc
            THEN [g EXCEPT ![k] = [dataSrc |-> NoSrc, src |-> realSrc,
                                   observed |-> FALSE,
                                   loads |-> g[k].loads + 1]]
          ELSE [g EXCEPT ![k].observed = FALSE]

\* the callback's loop over its entries, in order
RECURSIVE ioCallback(_, _)
ioCallback(g, entries) ==
  IF entries = <<>> THEN g
  ELSE ioCallback(ioEntry(g, Head(entries)), Tail(entries))

Observed == {k \in DOMAIN gallery : gallery[k].observed}

\* the entry lists a callback can get: up to n entries about observed
\* thumbnails, the same thumbnail possibly more than once
EntriesUpTo(n) ==
  UNION {[1..m -> [target : Observed, isIntersecting : BOOLEAN]] :
           m \in 1..n}

Entries == EntriesUpTo(MaxEntries)

\* ------------------------------------------------------------------ actions
sFrameLb == <<lbHidden, ariaHidden, lbSrc, lbCaption, autoplay, live,
              nextId, threw>>

\* the setInterval callback of interval t
Tick(t) ==
  /\ t \in live
  /\ idx' = NextIdx(idx, COUNT)
  /\ slides' = renderSlide(els, idx', slides)
  /\ status' = renderStatus(els, COUNT, idx', status)
  /\ \E restart \in BOOLEAN :
       IF restart
         THEN tickFrom' = idx /\ tickN' = 1
       ELSE tickN < MaxTicks /\ tickFrom' = tickFrom /\ tickN' = tickN + 1
  /\ UNCHANGED <<COUNT, els, docHidden, gallery, galleryBuilt>>
  /\ UNCHANGED sFrameLb
  /\ UNCHANGED fvars
  /\ ioHits' = {}

\* click on the k-th gallery thumbnail
ThumbClick(k) ==
  /\ ~docHidden
  /\ k \in DOMAIN gallery
  /\ SetLb(openLightbox(els, LbState, fullImages(k - 1), Caption(k - 1, COUNT)))
  /\ UNCHANGED <<COUNT, els, idx, docHidden, slides, status, gallery,
                 galleryBuilt, tickFrom, tickN>>
  /\ UNCHANGED fvars
  /\ ioHits' = {}

\* click on the close control
CloseClick ==
  /\ ~docHidden
  /\ "lightboxClose" \in els
  /\ nextId <= MaxTimers
  /\ SetLb(closeLightbox(els, LbState))
  /\ UNCHANGED <<COUNT, els, idx, docHidden, slides, status, gallery,
                 galleryBuilt, tickFrom, tickN>>
  /\ UNCHANGED fvars
  /\ ioHits' = {}

\* click on the backdrop
BackdropClick ==
  /\ ~docHidden
  /\ "lightboxBackdrop" \in els
  /\ nextId <= MaxTimers
  /\ SetLb(closeLightbox(els, LbState))
  /\ UNCHANGED <<COUNT, els, idx, docHidden, slides, status, gallery,
                 galleryBuilt, tickFrom, tickN>>
  /\ UNCHANGED fvars
  /\ ioHits' = {}

\* keydown of the Escape key
KeydownEscape ==
  /\ ~docHidden
  /\ nextId <= MaxTimers
  /\ SetLb(onKeydownEscape(els, LbState))
  /\ UNCHANGED <<COUNT, els, idx, docHidden, slides, status, gallery,
                 galleryBuilt, tickFrom, tickN>>
  /\ UNCHANGED fvars
  /\ ioHits' = {}

\* the page is hidden or shown
VisibilityChange ==
  /\ docHidden' = ~docHidden
  /\ docHidden' \/ nextId <= MaxTimers
  /\ SetLb(onVisibilityChange(LbState, docHidden'))
  /\ UNCHANGED <<COUNT, els, idx, slides, status, gallery, galleryBuilt,
                 tickFrom, tickN>>
  /\ UNCHANGED fvars
  /\ ioHits' = {}

\* the IntersectionObserver reports entries for thumbnails it observes
IOCallback(entries) ==
  /\ gallery' = ioCallback(gallery, entries)
  /\ ioHits' = {entries[j].target : j \in {i \in DOMAIN entries :
                                            entries[i].isIntersecting}}
  /\ UNCHANGED <<COUNT, els, idx, docHidden, slides, status, galleryBuilt,
                 tickFrom, tickN>>
  /\ UNCHANGED sFrameLb
  /\ UNCHANGED fvars

\* -------------------------------------------------------------------- init
\* the page after the script ran, for n images, the elements e found and
\* the page loaded in a hidden (background) or visible tab
SlideInit(n, e, hidden) ==
  /\ COUNT = n
  /\ els = e
  /\ idx = 0
  /\ docHidden = hidden
  /\ lbHidden = TRUE
  /\ ariaHidden = "true"
  /\ lbSrc = NoSrc
  /\ lbCaption = NoCaption
  /\ threw = FALSE
  /\ ioHits = {}
  /\ tickFrom = 0
  /\ tickN = 0
  /\ IF n = 0
       THEN /\ status = IF "statusEl" \in e THEN StatusNoImages ELSE StatusBlank
            /\ slides = <<>>
            /\ gallery = <<>>
            /\ galleryBuilt = FALSE
            /\ autoplay = NoTimer
            /\ live = {}
            /\ nextId = 1
     ELSE /\ slides = renderSlide(e, 0, <<>>)
          /\ status = renderStatus(e, n, 0, StatusBlank)
          /\ gallery = renderGallery(e, n)
          /\ galleryBuilt = ("galleryEl" \in e)
          /\ LET t == startAutoplay(NoTimer, {}, 1)
             IN autoplay = t.autoplay /\ live = t.live /\ nextId = t.nextId

\* ============================================================ order forms
\* Texts are sequences of tokens; the token " " is a blank.

\* ------------------------------------------------------------------ bounds
\* Most required controls in the form whose content is drawn.
MaxRequired == 2
\* Most item rows in the form whose content is drawn.
MaxRows == 2
\* POST requests issued in one behaviour.
MaxSubmits == 2


FormIds == {"quickOrderForm", "largeOrderForm"}

\* String.prototype.trim on a token text
RECURSIVE TrimLeft(_)
TrimLeft(t) == IF t # <<>> /\ Head(t) = " " THEN TrimLeft(Tail(t)) ELSE t
RECURSIVE TrimRight(_)
TrimRight(t) ==
  IF t # <<>> /\ t[Len(t)] = " " THEN TrimRight(SubSeq(t, 1, Len(t) - 1))
  ELSE t
Trim(t) == TrimRight(TrimLeft(t))

\* .replace(/\*$/, ""): drop one trailing asterisk
StripStar(t) ==
  IF t # <<>> /\ t[Len(t)] = "*" THEN SubSeq(t, 1, Len(t) - 1) ELSE t

\* encodeURIComponent on a token text: a blank becomes %20; letters, digits
\* and ( ) stay
RECURSIVE encodeURIComponent(_)
encodeURIComponent(t) ==
  IF t = <<>> THEN <<>>
  ELSE <<IF Head(t) = " " THEN "%20" ELSE Head(t)>>
         \o encodeURIComponent(Tail(t))

\* humanLabel(el).  A control without id, or whose id no label points at,
\* has label = <<>> here (a label whose text is empty reads the same to the
\* caller only if name and placeholder are empty too; the pages' labels have
\* text).
humanLabel(el) ==
  IF el.hasLabel THEN StripStar(Trim(el.label))
  ELSE Trim(IF el.name # <<>> THEN el.name
            ELSE IF el.placeholder # <<>> THEN el.placeholder
            ELSE <<"Required", " ", "field">>)

\* the check of one required control
controlOk(el) ==
  IF el.type = "checkbox" THEN el.checked ELSE Trim(el.value) # <<>>

ItemLineMsg == <<"At least 1 item line">>

\* a validateForm that stops collecting at the first invalid control
RECURSIVE missingShortCircuit(_)
missingShortCircuit(required) ==
  IF required = <<>> THEN <<>>
  ELSE IF ~controlOk(Head(required)) THEN <<humanLabel(Head(required))>>
  ELSE missingShortCircuit(Tail(required))

\* validateForm: the labels pushed by the loop over the required controls
RECURSIVE missingLabels(_)
missingLabels(required) ==
  IF required = <<>> THEN <<>>
  ELSE (IF controlOk(Head(required)) THEN <<>>
        ELSE <<humanLabel(Head(required))>>)
       \o missingLabels(Tail(required))

\* validateForm(form, errorBox): result, marked controls, error panel
validateForm(form) ==
  LET marked == [k \in DOMAIN form.required |->
                   [form.required[k] EXCEPT
                      !.fieldError = ~controlOk(form.required[k])]]
      missing == missingLabels(form.required)
                 \o (IF Len(form.rows) = 0 THEN <<ItemLineMsg>> ELSE <<>>)
  IN IF missing # <<>>
       THEN [ok |-> FALSE, required |-> marked, errDisplay |-> "block",
             errItems |-> missing]
     ELSE [ok |-> TRUE, required |-> marked, errDisplay |-> "none",
           errItems |-> <<>>]

\* the item filter keeping only rows with a quantity
keepItemQtyOnly(it) == it.qty # <<>>

\* the filter of submitOrder: it.qty || it.desc || it.material || it.notes
keepItem(it) ==
  it.qty # <<>> \/ it.desc # <<>> \/ it.material # <<>> \/ it.notes # <<>>

\* rows.map(...).filter(...)
RECURSIVE buildItems(_)
buildItems(rows) ==
  IF rows = <<>> THEN <<>>
  ELSE (IF keepItem(Head(rows)) THEN <<Head(rows)>> ELSE <<>>)
       \o buildItems(Tail(rows))

\* the payload: order_type and items_json (JSON.stringify of the items)
buildPayload(id, form) ==
  [order_type |-> IF id = "quickOrderForm" THEN "quick" ELSE "large",
   items_json |-> [json |-> buildItems(form.rows)]]

\* the button after `btn.disabled = true; ...`
btnSending(btn) ==
  IF btn.present
    THEN [btn EXCEPT !.disabled = TRUE, !.saved = btn.text,
                     !.text = <<"Sending...">>]
  ELSE btn

\* the finally block
btnFinally(btn) ==
  IF btn.present
    THEN [btn EXCEPT !.disabled = FALSE,
                     !.text = IF btn.saved # <<>> THEN btn.saved
                              ELSE <<"Submit">>]
  ELSE btn

\* res.ok
resOk(res) == res.status >= 200 /\ res.status <= 299

\* `${res.status}`
statusText(st) == <<IF st = 200 THEN "200" ELSE IF st = 500 THEN "500" ELSE "?">>

\* await res.json().catch(() => ({})): a body that does not parse is {}
EmptyBody == [ok |-> FALSE, error |-> <<>>, message |-> <<>>,
              order_id |-> <<>>, job_id |-> <<>>]
parseBody(res) == IF res.parses THEN res.body ELSE EmptyBody

FailUrl(msg) ==
  [path |-> "/order-status.html", ok |-> "0", msg |-> encodeURIComponent(msg),
   order_id |-> <<>>, job_id |-> <<>>]
OkUrl(orderId, jobId) ==
  [path |-> "/order-status.html", ok |-> "1", msg |-> <<>>,
   order_id |-> encodeURIComponent(orderId),
   job_id |-> encodeURIComponent(jobId)]

\* outcome routing that trusts the HTTP status alone
routeStatusOnly(res) ==
  IF res.rejected
    THEN [url |-> FailUrl(IF res.errMessage # <<>> THEN res.errMessage
                          ELSE <<"Network", " ", "error">>),
          reset |-> FALSE]
  ELSE LET data == parseBody(res)
       IN IF ~resOk(res)
            THEN [url |-> FailUrl(
                    IF data.error # <<>> THEN data.error
                    ELSE IF data.message # <<>> THEN data.message
                    ELSE <<"Request", " ", "failed", " ", "(">>
                         \o statusText(res.status) \o <<")">>),
                  reset |-> FALSE]
          ELSE [url |-> OkUrl(data.order_id, data.job_id), reset |-> TRUE]

\* outcome routing without the .catch(() => ({})) on res.json(): a body that
\* does not parse throws into the catch block
routeParseThrows(res) ==
  IF res.rejected \/ ~res.parses
    THEN [url |-> FailUrl(IF res.errMessage # <<>> THEN res.errMessage
                          ELSE <<"Network", " ", "error">>),
          reset |-> FALSE]
  ELSE LET data == res.body
       IN IF ~resOk(res) \/ ~data.ok
            THEN [url |-> FailUrl(
                    IF data.error # <<>> THEN data.error
                    ELSE IF data.message # <<>> THEN data.message
                    ELSE <<"Request", " ", "failed", " ", "(">>
                         \o statusText(res.status) \o <<")">>),
                  reset |-> FALSE]
          ELSE [url |-> OkUrl(data.order_id, data.job_id), reset |-> TRUE]

\* what follows `await fetch(...)`: the redirect and whether the form is reset
route(res) ==
  IF res.rejected
    THEN [url |-> FailUrl(IF res.errMessage # <<>> THEN res.errMessage
                          ELSE <<"Network", " ", "error">>),
          reset |-> FALSE]
  ELSE LET data == parseBody(res)
       IN IF ~resOk(res) \/ ~data.ok
            THEN [url |-> FailUrl(
                    IF data.error # <<>> THEN data.error
                    ELSE IF data.message # <<>> THEN data.message
                    ELSE <<"Request", " ", "failed", " ", "(">>
                         \o statusText(res.status) \o <<")">>),
                  reset |-> FALSE]
          ELSE [url |-> OkUrl(data.order_id, data.job_id), reset |-> TRUE]

\* form.reset(): every control back to its default (empty, unchecked)
formReset(form) ==
  [form EXCEPT
     !.required = [k \in DOMAIN form.required |->
                     [form.required[k] EXCEPT !.checked = FALSE,
                                              !.value = <<>>]],
     !.rows = [k \in DOMAIN form.rows |->
                 [qty |-> <<>>, desc |-> <<>>, material |-> <<>>,
                  notes |-> <<>>]]]

\* ------------------------------------------------------------ form inputs
\* where a submit event comes from: the located submit button (which must be
\* enabled), or anything else that submits the form (another submit control,
\* requestSubmit())
Vias == {"button", "other"}

\* attributes of the k-th required control of a form
ControlAttrs(k) ==
  IF k = 1 THEN [hasLabel |-> TRUE, label |-> <<" ", "Name", " ", "*">>,
                 name |-> <<"name">>, placeholder |-> <<>>]
  ELSE IF k = 2 THEN [hasLabel |-> FALSE, label |-> <<>>,
                      name |-> <<"email">>, placeholder |-> <<"Email">>]
  ELSE [hasLabel |-> FALSE, label |-> <<>>, name |-> <<>>,
        placeholder |-> <<>>]

ControlValues ==
  [type : {"checkbox"}, checked : BOOLEAN, value : {<<"on">>}]
  \cup [type : {"text"}, checked : {FALSE},
        value : {<<>>, <<" ">>, <<"a">>}]

Control(k, v) ==
  [type |-> v.type, checked |-> v.checked, value |-> v.value,
   fieldError |-> FALSE, hasLabel |-> ControlAttrs(k).hasLabel,
   label |-> ControlAttrs(k).label, name |-> ControlAttrs(k).name,
   placeholder |-> ControlAttrs(k).placeholder]

RowValues ==
  {[qty |-> <<>>, desc |-> <<>>, material |-> <<>>, notes |-> <<>>],
   [qty |-> <<"2">>, desc |-> <<>>, material |-> <<>>, notes |-> <<>>],
   [qty |-> <<>>, desc |-> <<"sign">>, material |-> <<"oak">>,
    notes |-> <<>>],
   [qty |-> <<>>, desc |-> <<>>, material |-> <<>>, notes |-> <<" ">>]}

SeqsUpTo(S, n) == UNION {[1..m -> S] : m \in 0..n}

Button(label) ==
  [present |-> TRUE, disabled |-> FALSE, text |-> label, saved |-> <<>>,
   label0 |-> label]

\* a form as the page shows it before any submit
NewForm(vals, rows, label) ==
  [required |-> [k \in DOMAIN vals |-> Control(k, vals[k])],
   rows |-> rows,
   btn |-> Button(label),
   errDisplay |-> "initial",
   errItems |-> <<>>,
   inflight |-> <<>>]

\* a filled-in form with one item
PlainForm ==
  NewForm(<<[type |-> "text", checked |-> FALSE, value |-> <<"a">>]>>,
          <<[qty |-> <<"2">>, desc |-> <<>>, material |-> <<>>,
             notes |-> <<>>]>>,
          <<"Send">>)

\* a filled-in form whose only item row is blank
BlankRowForm ==
  NewForm(<<[type |-> "checkbox", checked |-> TRUE, value |-> <<"on">>]>>,
          <<[qty |-> <<>>, desc |-> <<>>, material |-> <<>>,
             notes |-> <<>>]>>,
          <<"Place", " ", "order">>)

\* parsed bodies; an absent field reads like an empty one (x || ...)
Bodies ==
  [ok : {TRUE}, error : {<<>>}, message : {<<>>, <<"bad">>},
   order_id : {<<>>, <<"A1">>}, job_id : {<<>>, <<"J", " ", "9">>}]
  \cup
  [ok : {FALSE}, error : {<<>>, <<"Out", " ", "of", " ", "stock">>},
   message : {<<>>, <<"bad">>}, order_id : {<<>>, <<"A1">>},
   job_id : {<<>>}]

\* how a request settles: a response, or a rejected fetch
Responses ==
  [rejected : {FALSE}, status : {200, 500}, parses : {TRUE}, body : Bodies,
   errMessage : {<<>>}]
  \cup [rejected : {FALSE}, status : {200, 500}, parses : {FALSE},
        body : {EmptyBody}, errMessage : {<<>>}]
  \cup [rejected : {TRUE}, status : {0}, parses : {FALSE}, body : {EmptyBody},
        errMessage : {<<>>, <<"Failed", " ", "to", " ", "fetch">>}]

\* route, tabulated over the ways a request can settle
\* (f @@ <<>> is f, held as an enumerated table)
routeTable == [res \in Responses |-> route(res)] @@ <<>>

\* the ways of settling that make submitOrder assign a given location
routeIndex ==
  [u \in {routeTable[res].url : res \in Responses} |->
     {res \in Responses : routeTable[res].url = u}] @@ <<>>

\* ------------------------------------------------------------ form actions
\* a submit event on form f: the listener calls submitOrder, which runs up to
\* `await fetch(...)`
Submit(f, via) ==
  /\ via = "button" => (forms[f].btn.present /\ ~forms[f].btn.disabled)
  /\ LET form == forms[f]
         v == validateForm(form)
         checked == [form EXCEPT !.required = v.required,
                                 !.errDisplay = v.errDisplay,
                                 !.errItems = v.errItems]
     IN IF ~v.ok
          THEN /\ forms' = [forms EXCEPT ![f] = checked]
               /\ UNCHANGED posts
        ELSE /\ posts < MaxSubmits
             /\ forms' = [forms EXCEPT ![f] =
                  [checked EXCEPT
                     !.btn = btnSending(form.btn),
                     !.inflight = Append(form.inflight,
                                         buildPayload(f, form))]]
             /\ posts' = posts + 1
  /\ UNCHANGED <<location, redirects, resets>>
  /\ UNCHANGED svars

\* the j-th request in flight of form f settles with res: submitOrder resumes
\* and runs to its end, finally block included
Settle(f, j, res) ==
  /\ j \in DOMAIN forms[f].inflight
  /\ LET form == forms[f]
         r == routeTable[res]
         after == IF r.reset THEN formReset(form) ELSE form
         rest == [k \in 1..(Len(form.inflight) - 1) |->
                    IF k < j THEN form.inflight[k] ELSE form.inflight[k + 1]]
     IN /\ location' = r.url
        /\ redirects' = redirects + 1
        /\ resets' = resets + (IF r.reset THEN 1 ELSE 0)
        /\ forms' = [forms EXCEPT ![f] =
                       [after EXCEPT !.btn = btnFinally(form.btn),
                                     !.inflight = rest]]
  /\ UNCHANGED posts
  /\ UNCHANGED svars

\* err?.message of the errors drawn: none, or a text
ErrMessages == {res.errMessage : res \in Responses}

\* a catch block that uses the error's message as it is
catchUrlNoFallback(msg) == FailUrl(msg)

\* the catch block's redirect for an error whose message is msg
catchUrl(msg) ==
  FailUrl(IF msg # <<>> THEN msg ELSE <<"Network", " ", "error">>)

\* a submit event on form f during which building the payload throws an error
\* with message msg: validation passed and the button was switched, then the
\* catch block redirects and the finally block runs, all in the same task
SubmitThrow(f, via, msg) ==
  /\ via = "button" => (forms[f].btn.present /\ ~forms[f].btn.disabled)
  /\ redirects < MaxSubmits
  /\ LET form == forms[f]
         v == validateForm(form)
     IN /\ v.ok
        /\ forms' = [forms EXCEPT ![f] =
                       [form EXCEPT !.required = v.required,
                                    !.errDisplay = v.errDisplay,
                                    !.errItems = v.errItems,
                                    !.btn = btnFinally(btnSending(form.btn))]]
  /\ location' = catchUrl(msg)
  /\ redirects' = redirects + 1
  /\ UNCHANGED <<posts, resets>>
  /\ UNCHANGED svars

NoUrl == [path |-> "", ok |-> "", msg |-> <<>>, order_id |-> <<>>,
          job_id |-> <<>>]

\* the order page as loaded, fs mapping the ids of the forms it holds to
\* their content (a form the page lacks gets no listener)
FormInit(fs) ==
  /\ forms = fs
  /\ location = NoUrl
  /\ redirects = 0
  /\ posts = 0
  /\ resets = 0

PlainRow == [qty |-> <<"2">>, desc |-> <<>>, material |-> <<>>, notes |-> <<>>]
PlainControl == [type |-> "text", checked |-> FALSE, value |-> <<"a">>]

\* the contents drawn for a form: any required controls with no or one
\* item row, or any item rows behind a filled-in required control
DrawnForms ==
  {NewForm(vals, rows, <<"Place", " ", "order">>) :
     vals \in SeqsUpTo(ControlValues, MaxRequired),
     rows \in {<<>>, <<PlainRow>>}}
  \cup
  {NewForm(<<PlainControl>>, rows, <<"Place", " ", "order">>) :
     rows \in SeqsUpTo(RowValues, MaxRows)}

FormNext ==
  \/ \E f \in DOMAIN forms, via \in Vias : Submit(f, via)
  \/ \E f \in DOMAIN forms, j \in 1..MaxSubmits, res \in Responses :
       Settle(f, j, res)

\* ------------------------------------------------------- the specifications
\* the portfolio page: the slideshow controller runs, the order forms idle
Init ==
  /\ \E n \in 0..MaxCount, hidden \in BOOLEAN : SlideInit(n, AllEls, hidden)
  /\ FormInit([f \in FormIds |-> PlainForm])

SlideNext ==
  \/ VisibilityChange
  \/ \E t \in live : Tick(t)
  \/ \E k \in DOMAIN gallery : ThumbClick(k)
  \/ CloseClick
  \/ BackdropClick
  \/ KeydownEscape
  \/ \E entries \in EntriesUpTo(1) : IOCallback(entries)

Next == SlideNext

Spec == Init /\ [][Next]_vars

\* the portfolio page watched for its gallery: observer callbacks with up to
\* MaxEntries entries, between clicks, key presses and visibility changes
\* (autoplay ticks, which touch the slide mount alone, are left out)
GalleryNext ==
  \/ \E entries \in Entries : IOCallback(entries)
  \/ \E k \in DOMAIN gallery : ThumbClick(k)
  \/ CloseClick
  \/ KeydownEscape
  \/ VisibilityChange

SpecGallery == Init /\ [][GalleryNext]_vars

\* the portfolio page used with the keyboard: the lightbox is closed with
\* Escape only
EscapeNext ==
  \/ KeydownEscape
  \/ \E k \in DOMAIN gallery : ThumbClick(k)
  \/ \E t \in live : Tick(t)
  \/ VisibilityChange

SpecEscape == Init /\ [][EscapeNext]_vars

\* the portfolio page with any of the elements the script looks up missing
InitDom ==
  /\ \E n \in 0..MaxDomCount, e \in SUBSET AllEls : SlideInit(n, e, FALSE)
  /\ FormInit([f \in FormIds |-> PlainForm])

SpecDom == InitDom /\ [][SlideNext]_vars

\* an order page: it holds one of the two forms with drawn content, or both
\* forms with one item row each; the slideshow idles
InitForm ==
  /\ SlideInit(0, AllEls, FALSE)
  /\ \/ \E f \in FormIds, d \in DrawnForms : FormInit([g \in {f} |-> d])
     \/ \E q, l \in {PlainForm, BlankRowForm} :
          FormInit([f \in FormIds |-> IF f = "quickOrderForm" THEN q ELSE l])

NextForm == FormNext

SpecForm == InitForm /\ [][NextForm]_vars

\* an order page on which building the payload can throw: one filled-in form,
\* or both forms
InitThrow ==
  /\ SlideInit(0, AllEls, FALSE)
  /\ \/ \E f \in FormIds :
          FormInit([g \in {f} |-> NewForm(<<PlainControl>>, <<PlainRow>>,
                                          <<"Place", " ", "order">>)])
     \/ \E q, l \in {PlainForm, BlankRowForm} :
          FormInit([f \in FormIds |-> IF f = "quickOrderForm" THEN q ELSE l])

NextThrow ==
  \/ FormNext
  \/ \E f \in DOMAIN forms, via \in Vias, msg \in ErrMessages :
       SubmitThrow(f, via, msg)

SpecThrow == InitThrow /\ [][NextThrow]_vars

\* ===================================================== slideshow properties

\* C1: with a non-empty image set, whenever the lightbox is open the autoplay
\* timer is not running: the handle is null and no interval is left to tick.
C1_OpenLightboxHaltsAutoplay ==
  (COUNT >= 1 /\ ~lbHidden) => (autoplay = NoTimer /\ live = {})

C2_TimerInv ==
  /\ Cardinality(live) <= 1
  /\ live = (IF autoplay = NoTimer THEN {} ELSE {autoplay})
  /\ autoplay # NoTimer => autoplay = nextId - 1

C2_TimerStep ==
  /\ (\E k \in DOMAIN gallery : ThumbClick(k)) =>
       (autoplay' = NoTimer /\ live' = {})
  /\ (CloseClick \/ BackdropClick) =>
       (autoplay' = nextId /\ live' = {autoplay'})
  /\ nextId' # nextId => (autoplay' = nextId /\ live' = {nextId})

\* C2: at most one autoplay interval is live and it is the one the handle
\* names; every startAutoplay leaves the new interval alone in the table
\* (the old one cancelled); a thumbnail click leaves no timer; a click on the
\* close or backdrop control leaves exactly one, newly created.
C2_AtMostOneInterval == [](C2_TimerInv) /\ [][C2_TimerStep]_vars

\* repeated open/close cycles: the lightbox is closed again and the third
\* interval is the only one live
C2_Witness ==
  /\ nextId > 3
  /\ autoplay = 3
  /\ live = {autoplay}
  /\ lbHidden
  /\ lbCaption # NoCaption

\* C3: with an empty image set nothing is ever rendered, built or started and
\* the status stays "No images found.".
C3_EmptySetStaysDisabled ==
  COUNT = 0 =>
    /\ status = StatusNoImages
    /\ slides = <<>>
    /\ ~galleryBuilt
    /\ autoplay = NoTimer
    /\ live = {}
    /\ nextId = 1

\* C4: after N consecutive autoplay ticks from index i the index is
\* (i + N) mod total, for every total >= 1.
C4_TicksAdvanceModulo ==
  COUNT >= 1 => idx = (tickFrom + tickN) % COUNT

\* a run that starts at the last index and wraps around more than once
C4_Witness ==
  /\ COUNT >= 2
  /\ tickFrom = COUNT - 1
  /\ tickN > COUNT

C5_ThumbInv ==
  \A k \in DOMAIN gallery :
    /\ gallery[k].loads <= 1
    /\ gallery[k].loads = 1 <=> gallery[k].src # NoSrc
    /\ gallery[k].observed <=> gallery[k].src = NoSrc
    /\ gallery[k].src \in {NoSrc, thumbImages(k - 1)}
    /\ gallery[k].src = NoSrc => gallery[k].dataSrc = thumbImages(k - 1)

C5_ThumbStep ==
  \A k \in DOMAIN gallery :
    /\ gallery[k].src # NoSrc => gallery'[k] = gallery[k]
    /\ IF k \in ioHits'
         THEN /\ gallery[k].observed
              /\ gallery'[k].src = thumbImages(k - 1)
              /\ gallery'[k].loads = 1
              /\ ~gallery'[k].observed
       ELSE gallery'[k] = gallery[k]

\* C5: every thumbnail's src is assigned at most once, only by a callback
\* whose entries report it as intersecting; a callback without such an entry,
\* like any other step, leaves the thumbnail unchanged and observed; a loaded
\* thumbnail is unobserved and never changes again.
C5_LazyLoadOneShot == [](C5_ThumbInv) /\ [][C5_ThumbStep]_vars

\* after a callback, one thumbnail is loaded and another still waits
C5_Witness ==
  /\ \E k \in ioHits :
       gallery[k].loads = 1 /\ ~gallery[k].observed
  /\ \E k \in DOMAIN gallery :
       gallery[k].observed /\ gallery[k].src = NoSrc

\* C6: a visibilitychange to hidden leaves the handle null; one to visible
\* leaves exactly one interval, newly created, whatever the timer and the
\* lightbox were before; neither changes idx.
C6_VisibilityPolicy ==
  [][docHidden' # docHidden =>
       /\ idx' = idx
       /\ IF docHidden'
            THEN autoplay' = NoTimer
          ELSE /\ autoplay' # NoTimer
               /\ live' = {autoplay'}
               /\ autoplay' >= nextId]_vars

\* the page became visible while the lightbox is open
C6_Witness ==
  /\ ~docHidden
  /\ ~lbHidden
  /\ autoplay # NoTimer

\* ==================================================== order form properties

\* a required control that does not pass: an unchecked checkbox, or another
\* control whose trimmed value is empty
Invalid(c) ==
  IF c.type = "checkbox" THEN ~c.checked ELSE Trim(c.value) = <<>>

\* the labels of the invalid controls, in document order
RECURSIVE InvalidLabels(_)
InvalidLabels(cs) ==
  IF cs = <<>> THEN <<>>
  ELSE IF Invalid(Head(cs))
    THEN <<humanLabel(Head(cs))>> \o InvalidLabels(Tail(cs))
  ELSE InvalidLabels(Tail(cs))

Passes(form) ==
  /\ \A k \in DOMAIN form.required : ~Invalid(form.required[k])
  /\ Len(form.rows) > 0

C7_SubmitStep(f, via) ==
  LET form == forms[f]
      after == forms'[f]
  IN /\ posts' = posts + 1 <=> Passes(form)
     /\ Len(after.inflight) = Len(form.inflight) + 1 <=> Passes(form)
     /\ \A k \in DOMAIN form.required :
          after.required[k].fieldError = Invalid(form.required[k])
     /\ ~Passes(form) =>
          /\ after.errItems =
               InvalidLabels(form.required)
               \o (IF Len(form.rows) = 0 THEN <<ItemLineMsg>> ELSE <<>>)
          /\ after.errDisplay = "block"
          /\ after.btn = form.btn
          /\ after.inflight = form.inflight
          /\ location' = location
          /\ redirects' = redirects
          /\ resets' = resets

\* C7: a submit event issues the POST iff every required control is valid and
\* the form has an item row; otherwise the error list holds one label per
\* invalid control, in order, plus "At least 1 item line" iff there is no item
\* row, every invalid control is marked and every valid one unmarked, the
\* error panel is shown, and button, requests and location are untouched.
C7_ValidationGatesSubmission ==
  [][\A f \in DOMAIN forms, via \in Vias :
       Submit(f, via) => C7_SubmitStep(f, via)]_vars

\* two required controls of which the first is invalid, no item row: the
\* panel lists the control's label and the item line, nothing was sent
C7_Witness ==
  \E f \in DOMAIN forms :
    /\ Len(forms[f].required) = 2
    /\ forms[f].required[1].fieldError
    /\ ~forms[f].required[2].fieldError
    /\ forms[f].rows = <<>>
    /\ forms[f].errDisplay = "block"
    /\ forms[f].errItems = <<<<"Name", " ">>, ItemLineMsg>>
    /\ posts = 0
    /\ ~forms[f].btn.disabled

NonEmptyRow(r) ==
  r.qty # <<>> \/ r.desc # <<>> \/ r.material # <<>> \/ r.notes # <<>>

\* C8: the request a valid submit puts in flight carries as items_json the
\* item rows with a non-empty field, in row order and unaltered, and as
\* order_type "quick" for the quick-order form and "large" for the other.
C8_PayloadItems ==
  [][\A f \in DOMAIN forms, via \in Vias :
       (Submit(f, via) /\ posts' = posts + 1) =>
         LET sent == forms'[f].inflight[Len(forms'[f].inflight)]
         IN /\ sent.items_json =
                 [json |-> SelectSeq(forms[f].rows, NonEmptyRow)]
            /\ sent.order_type =
                 (IF f = "quickOrderForm" THEN "quick" ELSE "large")]_vars

\* a quick-order request in flight whose form has a blank row followed by a
\* row with qty 2: one item
C8_Witness ==
  /\ "quickOrderForm" \in DOMAIN forms
  /\ LET form == forms["quickOrderForm"]
     IN /\ Len(form.rows) = 2
        /\ ~NonEmptyRow(form.rows[1])
        /\ form.rows[2] = PlainRow
        /\ Len(form.inflight) = 1
        /\ form.inflight[1] =
             [order_type |-> "quick", items_json |-> [json |-> <<PlainRow>>]]

\* the message of a failure redirect for a response that arrived
FailMsg(res) ==
  IF res.parses /\ res.body.error # <<>> THEN res.body.error
  ELSE IF res.parses /\ res.body.message # <<>> THEN res.body.message
  ELSE <<"Request", " ", "failed", " ", "(",
         IF res.status = 200 THEN "200" ELSE "500", ")">>

\* what the claim expects of a response that arrived
C9_Expected ==
  [res \in {x \in Responses : ~x.rejected} |->
     IF res.status \in 200..299 /\ res.parses /\ res.body.ok
       THEN [ok |-> "1", msg |-> <<>>,
             order_id |-> encodeURIComponent(res.body.order_id),
             job_id |-> encodeURIComponent(res.body.job_id)]
     ELSE [ok |-> "0", msg |-> encodeURIComponent(FailMsg(res)),
           order_id |-> <<>>, job_id |-> <<>>]] @@ <<>>

C9_SettleStep(f, res) ==
  LET e == C9_Expected[res]
  IN /\ redirects' = redirects + 1
     /\ location' = [path |-> "/order-status.html", ok |-> e.ok,
                     msg |-> e.msg, order_id |-> e.order_id,
                     job_id |-> e.job_id]
     /\ IF e.ok = "1"
          THEN /\ resets' = resets + 1
               /\ \A k \in DOMAIN forms[f].required :
                    /\ forms'[f].required[k].value = <<>>
                    /\ ~forms'[f].required[k].checked
               /\ \A k \in DOMAIN forms[f].rows : ~NonEmptyRow(forms'[f].rows[k])
        ELSE /\ resets' = resets
             /\ forms'[f].required = forms[f].required
             /\ forms'[f].rows = forms[f].rows

\* C9: when a response arrives the attempt assigns the location once: ok=1
\* with the encoded order_id and job_id, and the form reset, iff the status
\* is successful and the parsed body's ok is truthy; else ok=0 with the
\* encoded body.error, else body.message, else "Request failed (status)",
\* and the form is left as it was.
\* (Only a step that takes a request of f out of flight can be Settle(f, j,
\* res), and only for a res that routeIndex lists under the new location.)
C9_OutcomeRouting ==
  [][\A f \in DOMAIN forms :
       (/\ Len(forms'[f].inflight) < Len(forms[f].inflight)
        /\ location' \in DOMAIN routeIndex) =>
         \A res \in routeIndex[location'] :
           \/ res.rejected
           \/ C9_SettleStep(f, res)
           \/ ~(\E j \in DOMAIN forms[f].inflight : Settle(f, j, res))]_vars

\* a success redirect carrying both ids after one reset
C9_Witness ==
  /\ location.ok = "1"
  /\ location.order_id = <<"A1">>
  /\ location.job_id = <<"J", "%20", "9">>
  /\ resets = 1
  /\ redirects = 1

\* C10: whenever an attempt concludes, the submit button is enabled and
\* shows the label it had before any submission.
C10_FinallyRestoresButton ==
  [][\A f \in DOMAIN forms, j \in 1..MaxSubmits, res \in Responses :
       Settle(f, j, res) =>
         (forms'[f].btn.present =>
            /\ ~forms'[f].btn.disabled
            /\ forms'[f].btn.text = forms[f].btn.label0)]_vars

C11_InflightInv ==
  \A f \in DOMAIN forms :
    /\ Len(forms[f].inflight) <= 1
    /\ (Len(forms[f].inflight) >= 1 /\ forms[f].btn.present) =>
         /\ forms[f].btn.disabled
         /\ forms[f].btn.text = <<"Sending...">>

C11_OtherFormStep ==
  \A f \in DOMAIN forms, via \in Vias :
    Submit(f, via) => \A g \in DOMAIN forms \ {f} : forms'[g] = forms[g]

\* C11: at most one request per form is in flight; while one is, the form's
\* submit button is disabled and reads "Sending..."; a submit event on one
\* form leaves the other form as it was.
C11_NoDuplicateSubmissions ==
  [](C11_InflightInv) /\ [][C11_OtherFormStep]_vars

\* C12: whichever of the looked-up elements are missing, initialization and
\* every handler run to their end: none stops in an uncaught TypeError.
C12_GracefulDegradation == ~threw

\* the redirect the claim names for a response of status st
C13_RequestFailedUrl(st) ==
  [path |-> "/order-status.html", ok |-> "0",
   msg |-> <<"Request", "%20", "failed", "%20", "(",
             IF st = 200 THEN "200" ELSE "500", ")">>,
   order_id |-> <<>>, job_id |-> <<>>]

C13_SettleStep(f, res) ==
  /\ location' = C13_RequestFailedUrl(res.status)
  /\ redirects' = redirects + 1
  /\ resets' = resets
  /\ forms'[f].required = forms[f].required
  /\ forms'[f].rows = forms[f].rows

\* C13: when the response that arrives has a body that is not JSON, whatever
\* its status, the attempt redirects once with ok=0 and the message
\* "Request failed (status)", and the form is not reset.
C13_UnparsableBodyFails ==
  [][\A f \in DOMAIN forms :
       (/\ Len(forms'[f].inflight) < Len(forms[f].inflight)
        /\ location' \in DOMAIN routeIndex) =>
         \A res \in routeIndex[location'] :
           \/ res.rejected
           \/ res.parses
           \/ C13_SettleStep(f, res)
           \/ ~(\E j \in DOMAIN forms[f].inflight : Settle(f, j, res))]_vars

\* a 200 answer ended in the generic failure redirect: the form keeps its
\* content and the button is enabled again
C13_Witness ==
  /\ location = C13_RequestFailedUrl(200)
  /\ redirects = 1
  /\ resets = 0
  /\ posts = 1
  /\ \E f \in DOMAIN forms :
       /\ forms[f].inflight = <<>>
       /\ forms[f].rows = <<PlainRow>>
       /\ forms[f].errDisplay = "none"
       /\ ~forms[f].btn.disabled

\* the redirect the claim names for a thrown error whose message is msg
C14_ErrorUrl(msg) ==
  [path |-> "/order-status.html", ok |-> "0",
   msg |-> encodeURIComponent(IF msg # <<>> THEN msg
                              ELSE <<"Network", " ", "error">>),
   order_id |-> <<>>, job_id |-> <<>>]

C14_ThrowStep(f, msg) ==
  /\ location' = C14_ErrorUrl(msg)
  /\ redirects' = redirects + 1
  /\ resets' = resets
  /\ \A k \in DOMAIN forms[f].required :
       /\ forms'[f].required[k].value = forms[f].required[k].value
       /\ forms'[f].required[k].checked = forms[f].required[k].checked
  /\ forms'[f].rows = forms[f].rows
  /\ forms[f].btn.present => ~forms'[f].btn.disabled

\* C14: an error thrown while the payload is built, or a fetch that rejects,
\* ends the attempt with one redirect with ok=0 and the error's message
\* ("Network error" when it has none); the form is not reset and the submit
\* button is enabled afterwards.
C14_ThrownErrorFails ==
  [][\A f \in DOMAIN forms :
       /\ \A via \in Vias, msg \in ErrMessages :
            SubmitThrow(f, via, msg) => C14_ThrowStep(f, msg)
       /\ \A j \in DOMAIN forms[f].inflight, res \in Responses :
            (res.rejected /\ Settle(f, j, res)) =>
              C14_ThrowStep(f, res.errMessage)]_vars

\* one request has settled and one attempt ended in a thrown error; the one
\* that concluded last was an error without a message
C14_Witness ==
  /\ location = C14_ErrorUrl(<<>>)
  /\ redirects = 2
  /\ posts = 1
  /\ resets = 0
  /\ \E f \in DOMAIN forms :
       /\ forms[f].inflight = <<>>
       /\ ~forms[f].btn.disabled

\* ================================================ slideshow properties, ctd.

\* C15: Escape with the lightbox closed changes nothing: overlay, image
\* source, caption, idx, timer handle and the interval itself (it is not
\* restarted) stay; Escape with the lightbox open does what closeLightbox
\* does: overlay hidden, source removed, one newly created interval.
C15_EscapeOnlyWhenOpen ==
  [][KeydownEscape =>
       IF lbHidden
         THEN UNCHANGED <<lbHidden, ariaHidden, lbSrc, lbCaption, idx,
                          autoplay, live, nextId, slides, status>>
       ELSE /\ SetLb(closeLightbox(els, LbState))
            /\ lbHidden' /\ ariaHidden' = "true" /\ lbSrc' = NoSrc
            /\ lbCaption' = lbCaption
            /\ autoplay' = nextId /\ live' = {nextId}
            /\ nextId' = nextId + 1
            /\ UNCHANGED <<idx, slides, status>>]_vars

\* the lightbox was opened and then closed, which only Escape does here
C15_Witness ==
  /\ lbHidden
  /\ lbCaption # NoCaption
  /\ lbSrc = NoSrc
  /\ autoplay # NoTimer
  /\ live = {autoplay}

C16_IdxInRange == COUNT >= 1 => idx \in 0..(COUNT - 1)

\* C16: with a non-empty image set idx is always a valid index, and only an
\* autoplay tick changes it: opening and closing the lightbox, Escape,
\* visibility changes (and the timer starts and stops they cause) and
\* observer callbacks leave it alone.
C16_IdxOnlyByTick ==
  [](C16_IdxInRange)
  /\ [][(COUNT >= 1 /\ idx' # idx) => \E t \in live : Tick(t)]_vars

\* idx stands at the last image while the lightbox is open and the timer
\* runs again: ticks, an open and a visibility change have all happened
C16_Witness ==
  /\ COUNT >= 2
  /\ idx = COUNT - 1
  /\ ~lbHidden
  /\ autoplay # NoTimer
  /\ \E k \in DOMAIN gallery : gallery[k].loads = 1

\* C17: with a non-empty image set and every element present the slide mount
\* holds exactly one slide, the full image at idx with ordinal idx + 1, and
\* the status reads "idx+1 / total".
C17_OneSlideInStep ==
  COUNT >= 1 =>
    /\ Len(slides) = 1
    /\ slides[1].src = [kind |-> "full", n |-> idx + 1]
    /\ slides[1].alt = idx + 1
    /\ status = [kind |-> "pos", cur |-> idx + 1, total |-> COUNT]

\* the third tick of a run has moved a three-image show back to its first
\* image
C17_Witness ==
  /\ COUNT = 3
  /\ tickFrom = 0
  /\ tickN = 3
  /\ slides = <<[src |-> [kind |-> "full", n |-> 1], alt |-> 1]>>
  /\ status = [kind |-> "pos", cur |-> 1, total |-> 3]

C18_LightboxInv ==
  /\ ariaHidden = (IF lbHidden THEN "true" ELSE "false")
  /\ lbHidden => lbSrc = NoSrc
  /\ ~lbHidden =>
       /\ lbSrc.kind = "full"
       /\ lbSrc.n \in 1..COUNT
       /\ lbCaption = [n |-> lbSrc.n, total |-> COUNT]

C18_LightboxStep ==
  /\ \A k \in DOMAIN gallery :
       ThumbClick(k) =>
         /\ ~lbHidden'
         /\ lbSrc' = [kind |-> "full", n |-> k]
         /\ lbCaption' = [n |-> k, total |-> COUNT]
  /\ (CloseClick \/ BackdropClick \/ (KeydownEscape /\ ~lbHidden)) =>
       (lbHidden' /\ lbSrc' = NoSrc)
  /\ lbSrc' # lbSrc =>
       \/ \E k \in DOMAIN gallery : ThumbClick(k)
       \/ CloseClick \/ BackdropClick \/ KeydownEscape

\* C18: the overlay's hidden class and its aria-hidden attribute always
\* agree; after an open the overlay shows and image and caption are those of
\* the thumbnail clicked last (an open while open replaces them); after a
\* close the overlay is hidden and the image has no source; nothing else
\* touches the image.
C18_LightboxConsistent == [](C18_LightboxInv) /\ [][C18_LightboxStep]_vars

\* the second of three images was opened and the lightbox closed again: the
\* overlay is hidden and the image has no source (the caption stays)
C18_Witness ==
  /\ COUNT = 3
  /\ lbHidden
  /\ ariaHidden = "true"
  /\ lbSrc = NoSrc
  /\ lbCaption = [n |-> 2, total |-> 3]

\* C19: while the page is hidden the autoplay timer does not run: the handle
\* is null and no interval is left to tick.
C19_HiddenPageNoTimer ==
  docHidden => (autoplay = NoTimer /\ live = {})

\* ============================================== order form properties, ctd.

\* C20: every request in flight carries at least one item.
C20_PostedOrderHasItem ==
  \A f \in DOMAIN forms :
    \A j \in DOMAIN forms[f].inflight :
      forms[f].inflight[j].items_json.json # <<>>

====
